---- MODULE Spec2Model ----
(***************************************************************************)
(* State-machine model of obsidian-xterm.                                  *)
(*                                                                         *)
(*   server/server.js : the PTY session broker (registry `terminals`,      *)
(*                      socket handlers, /health, SIGTERM / SIGINT)        *)
(*   main.ts          : the plugin-side supervisor (startServer,           *)
(*                      tryStartServer, stopServer)                        *)
(*                                                                         *)
(* Node runs every handler to completion on one event loop, so every       *)
(* handler (and every stretch of an async function between two awaits) is  *)
(* one atomic action.                                                      *)
(***************************************************************************)
EXTENDS Integers, Sequences, FiniteSets, TLC

\* ------------------------------------------------------------------ bounds
NConn == 2        \* socket connections the broker ever accepts
MaxProcs == 2     \* PTY processes the broker ever spawns
MaxEvents == 2    \* inputs, resizes, output chunks and failed spawns handled
MaxCalls == 2     \* invocations of startServer
MaxChildren == 3  \* server subprocesses the supervisor ever spawns
MaxSent == 3      \* messages the terminal view ever emits
MaxKeys == 2      \* keystrokes typed into the emulator
MaxVersions == 2  \* entries of the nvm versions directory

Conns == 1..NConn
NoProc == 0       \* terminals.get(id) === undefined

VARIABLES
  platform,   \* process.platform of the broker
  phase,      \* "listening" | "closing" (server.close called) | "exited"
  sock,       \* socket id -> "idle" | "open" | "closed"
  recv,       \* socket id -> sequence of the client messages handled on it
  terminals,  \* the Map socket.id -> ptyProcess (NoProc: no entry)
  ptys,       \* every PTY process spawned so far, index = process identity
  emitted,    \* socket id -> sequence of the socket.emit calls made on it
  used        \* events counted against MaxEvents

srvVars == <<platform, phase, sock, recv, terminals, ptys, emitted, used>>

VARIABLES
  installed,        \* the probed install paths at which server.js exists
  isServerRunning,  \* TerminalPlugin.isServerRunning
  serverProcess,    \* TerminalPlugin.serverProcess (NoChild: null)
  children,         \* every subprocess spawned so far, index = identity
  calls             \* the invocations of startServer and where each stands

supVars == <<installed, isServerRunning, serverProcess, children, calls>>

VARIABLES
  view,         \* "closed" | "open": the TerminalView between onOpen and onClose
  link,         \* the socket.io-client socket: "none" (this.socket null) |
                \* "connecting" | "connected" | "reconnecting" | "disconnected"
  isConnected,  \* TerminalView.isConnected
  tdims,        \* this.terminal.cols, this.terminal.rows
  sent,         \* the socket.emit calls the view has made, in order
  keys,         \* per terminal.onData callback so far: the isConnected it saw
  lost,         \* this view has handled a terminal-exit or disconnect event
  prevSig,      \* the previous ResizeObserver callback of this view
  settings      \* TerminalPlugin.settings (serverPort, serverUrl, autoStartServer)

VARIABLES
  files,        \* the paths for which fs.existsSync answers true
  home,         \* process.env.HOME ("undefined" when unset)
  versions,     \* fs.readdirSync of the nvm directory: names, or not ok (throws)
  detected      \* the last findNodePath call: its result and its Notice

nodeVars == <<files, home, versions, detected>>

cliVars == <<view, link, isConnected, tdims, sent, keys, lost, prevSig, settings, nodeVars>>

vars == <<srvVars, supVars, cliVars>>

\* ------------------------------------------------------ request payloads
\* An option of the request is <<>> when absent and <<v>> when present.
OptsExample == [shell |-> <<"/bin/bash">>, cols |-> <<80>>, rows |-> <<24>>, cwd |-> <<"/tmp">>]
OptsClient  == [shell |-> <<"/bin/sh">>, cols |-> <<120>>, rows |-> <<40>>, cwd |-> <<>>]
OptsEmpty   == [shell |-> <<>>, cols |-> <<>>, rows |-> <<>>, cwd |-> <<>>]
OptsFalsy   == [shell |-> <<"">>, cols |-> <<0>>, rows |-> <<0>>, cwd |-> <<"">>]
AllOptions  == {OptsExample, OptsClient, OptsEmpty, OptsFalsy}

Sizes == {[cols |-> 100, rows |-> 30]}

Platforms == {"win32", "darwin", "linux"}

\* JavaScript `x || d` on an optional string / number.
OrStr(x, d) == IF x # <<>> /\ x[1] # "" THEN x[1] ELSE d
OrNum(x, d) == IF x # <<>> /\ x[1] # 0 THEN x[1] ELSE d

getDefaultShell ==
  CASE platform = "win32"  -> "powershell.exe"
    [] platform = "darwin" -> "/bin/zsh"
    [] OTHER               -> "/bin/bash"

homedir == "~"

DefaultCols == 80
DefaultRows == 24

\* ------------------------------------------------------------ the events
EvCreated(c, sh, dir, co, ro) ==
  [type |-> "terminal-created", id |-> c, shell |-> sh, cwd |-> dir, cols |-> co, rows |-> ro]
EvOutput(p) == [type |-> "terminal-output", data |-> p]
EvExit(p)   == [type |-> "terminal-exit", proc |-> p]
EvError(k)  == [type |-> "terminal-error", code |-> k]

\* The client messages, as recorded in recv.
MsgCreate(o)  == [type |-> "create-terminal", options |-> o]
MsgInput      == [type |-> "terminal-input"]
MsgResize(s)  == [type |-> "terminal-resize", size |-> s]
MsgDisconnect == [type |-> "disconnect"]

Emit(c, e) == [emitted EXCEPT ![c] = Append(@, e)]
Recv(c, m) == [recv EXCEPT ![c] = Append(@, m)]

\* terminal.kill() called on every process of the set S.
KillAll(S) == [p \in DOMAIN ptys |-> IF p \in S THEN [ptys[p] EXCEPT !.kills = @ + 1] ELSE ptys[p]]

Registered == {c \in Conns : terminals[c] # NoProc}

\* ---------------------------------------------------------------- Init
InitOn(P) ==
  /\ platform \in P
  /\ phase = "listening"
  /\ sock = [c \in Conns |-> "idle"]
  /\ recv = [c \in Conns |-> <<>>]
  /\ terminals = [c \in Conns |-> NoProc]
  /\ ptys = <<>>
  /\ emitted = [c \in Conns |-> <<>>]
  /\ used = 0

SrvInit == InitOn({"linux"})

\* io.on('connection'): a new socket; ids are numbered in order of arrival.
Connection(c) ==
  /\ phase = "listening"
  /\ sock[c] = "idle"
  /\ \A b \in Conns : b < c => sock[b] # "idle"
  /\ sock' = [sock EXCEPT ![c] = "open"]
  /\ UNCHANGED <<supVars, cliVars, platform, phase, recv, terminals, ptys, emitted, used>>

\* Mutant: terminal-created reports the columns for the rows as well.
CreateTerminalOkSquare(c, o) ==
  /\ phase # "exited"
  /\ sock[c] = "open"
  /\ Len(ptys) < MaxProcs
  /\ LET shell == OrStr(o.shell, getDefaultShell)
         cwd   == OrStr(o.cwd, homedir)
         pty   == [owner |-> c, shell |-> shell, cwd |-> cwd,
                   cols |-> OrNum(o.cols, DefaultCols), rows |-> OrNum(o.rows, DefaultRows),
                   exited |-> FALSE, kills |-> 0, stdin |-> <<>>]
         p     == Len(ptys) + 1
     IN /\ ptys' = Append(ptys, pty)
        /\ terminals' = [terminals EXCEPT ![c] = p]
        /\ emitted' = Emit(c, EvCreated(c, shell, cwd, pty.cols, pty.cols))
  /\ recv' = Recv(c, MsgCreate(o))
  /\ UNCHANGED <<supVars, cliVars, platform, phase, sock, used>>

\* socket.on('create-terminal'), pty.spawn returns.
CreateTerminalOk(c, o) ==
  /\ phase # "exited"
  /\ sock[c] = "open"
  /\ Len(ptys) < MaxProcs
  /\ LET shell == OrStr(o.shell, getDefaultShell)
         cwd   == OrStr(o.cwd, homedir)
         pty   == [owner |-> c, shell |-> shell, cwd |-> cwd,
                   cols |-> OrNum(o.cols, DefaultCols), rows |-> OrNum(o.rows, DefaultRows),
                   exited |-> FALSE, kills |-> 0, stdin |-> <<>>]
         p     == Len(ptys) + 1
     IN /\ ptys' = Append(ptys, pty)
        /\ terminals' = [terminals EXCEPT ![c] = p]
        /\ emitted' = Emit(c, EvCreated(c, shell, cwd, pty.cols, pty.rows))
  /\ recv' = Recv(c, MsgCreate(o))
  /\ UNCHANGED <<supVars, cliVars, platform, phase, sock, used>>

\* Mutant: terminal-created is announced before the spawn that then throws.
CreateTerminalFailAnnounced(c, o) ==
  /\ phase # "exited"
  /\ sock[c] = "open"
  /\ used < MaxEvents
  /\ used' = used + 1
  /\ emitted' = [emitted EXCEPT ![c] =
        @ \o <<EvCreated(c, OrStr(o.shell, getDefaultShell), OrStr(o.cwd, homedir),
                         OrNum(o.cols, DefaultCols), OrNum(o.rows, DefaultRows)),
               EvError("TERMINAL_CREATE_FAILED")>>]
  /\ recv' = Recv(c, MsgCreate(o))
  /\ UNCHANGED <<supVars, cliVars, platform, phase, sock, terminals, ptys>>

\* socket.on('create-terminal'), pty.spawn throws.
CreateTerminalFail(c, o) ==
  /\ phase # "exited"
  /\ sock[c] = "open"
  /\ used < MaxEvents
  /\ used' = used + 1
  /\ emitted' = Emit(c, EvError("TERMINAL_CREATE_FAILED"))
  /\ recv' = Recv(c, MsgCreate(o))
  /\ UNCHANGED <<supVars, cliVars, platform, phase, sock, terminals, ptys>>

CreateTerminal(c, o) == CreateTerminalOk(c, o) \/ CreateTerminalFail(c, o)

\* Mutant: input for a missing session is dropped without an error event.
TerminalInputSilent(c) ==
  /\ phase # "exited"
  /\ sock[c] = "open"
  /\ used < MaxEvents
  /\ used' = used + 1
  /\ IF terminals[c] # NoProc
       THEN ptys' = [ptys EXCEPT ![terminals[c]].stdin = Append(@, c)]
       ELSE UNCHANGED ptys
  /\ recv' = Recv(c, MsgInput)
  /\ UNCHANGED <<supVars, cliVars, platform, phase, sock, terminals, emitted>>

\* socket.on('terminal-input'); the bytes are tagged with the sending socket.
TerminalInput(c) ==
  /\ phase # "exited"
  /\ sock[c] = "open"
  /\ used < MaxEvents
  /\ used' = used + 1
  /\ IF terminals[c] # NoProc
       THEN /\ ptys' = [ptys EXCEPT ![terminals[c]].stdin = Append(@, c)]
            /\ UNCHANGED emitted
       ELSE /\ emitted' = Emit(c, EvError("NO_TERMINAL"))
            /\ UNCHANGED ptys
  /\ recv' = Recv(c, MsgInput)
  /\ UNCHANGED <<supVars, cliVars, platform, phase, sock, terminals>>

\* Mutant: a resize that throws tears the session down.
TerminalResizeFatal(c, s) ==
  /\ phase # "exited"
  /\ sock[c] = "open"
  /\ used < MaxEvents
  /\ used' = used + 1
  /\ \/ /\ terminals[c] # NoProc
        /\ ptys' = [ptys EXCEPT ![terminals[c]].cols = s.cols, ![terminals[c]].rows = s.rows]
        /\ UNCHANGED <<terminals, emitted>>
     \/ /\ terminals[c] # NoProc
        /\ ptys' = KillAll({terminals[c]})
        /\ terminals' = [terminals EXCEPT ![c] = NoProc]
        /\ emitted' = Emit(c, EvError("RESIZE_FAILED"))
     \/ /\ terminals[c] = NoProc
        /\ UNCHANGED <<ptys, terminals, emitted>>
  /\ recv' = Recv(c, MsgResize(s))
  /\ UNCHANGED <<supVars, cliVars, platform, phase, sock>>

\* socket.on('terminal-resize'); terminal.resize returns or throws (logged).
TerminalResize(c, s) ==
  /\ phase # "exited"
  /\ sock[c] = "open"
  /\ used < MaxEvents
  /\ used' = used + 1
  /\ \/ /\ terminals[c] # NoProc
        /\ ptys' = [ptys EXCEPT ![terminals[c]].cols = s.cols, ![terminals[c]].rows = s.rows]
     \/ UNCHANGED ptys
  /\ recv' = Recv(c, MsgResize(s))
  /\ UNCHANGED <<supVars, cliVars, platform, phase, sock, terminals, emitted>>

\* Mutant: the disconnect handler kills and unregisters every session.
DisconnectKillsAll(c) ==
  /\ phase # "exited"
  /\ sock[c] = "open"
  /\ sock' = [sock EXCEPT ![c] = "closed"]
  /\ ptys' = KillAll({terminals[b] : b \in Registered})
  /\ terminals' = [b \in Conns |-> NoProc]
  /\ recv' = Recv(c, MsgDisconnect)
  /\ UNCHANGED <<supVars, cliVars, platform, phase, emitted, used>>

\* socket.on('disconnect'); terminal.kill() returns (the delete follows) or
\* throws (the catch logs, the delete is skipped).
Disconnect(c) ==
  /\ phase # "exited"
  /\ sock[c] = "open"
  /\ sock' = [sock EXCEPT ![c] = "closed"]
  /\ IF terminals[c] # NoProc
       THEN /\ ptys' = KillAll({terminals[c]})
            /\ \/ terminals' = [terminals EXCEPT ![c] = NoProc]
               \/ UNCHANGED terminals
       ELSE UNCHANGED <<ptys, terminals>>
  /\ recv' = Recv(c, MsgDisconnect)
  /\ UNCHANGED <<supVars, cliVars, platform, phase, emitted, used>>

\* Mutant: output is emitted with io.emit, to every socket.
OnDataBroadcast(p) ==
  /\ phase # "exited"
  /\ p \in DOMAIN ptys
  /\ ~ptys[p].exited
  /\ used < MaxEvents
  /\ used' = used + 1
  /\ emitted' = [c \in Conns |-> Append(emitted[c], EvOutput(p))]
  /\ UNCHANGED <<supVars, cliVars, platform, phase, sock, recv, terminals, ptys>>

\* ptyProcess.onData callback; node-pty delivers data only before the exit event.
OnData(p) ==
  /\ phase # "exited"
  /\ p \in DOMAIN ptys
  /\ ~ptys[p].exited
  /\ used < MaxEvents
  /\ used' = used + 1
  /\ emitted' = Emit(ptys[p].owner, EvOutput(p))
  /\ UNCHANGED <<supVars, cliVars, platform, phase, sock, recv, terminals, ptys>>

\* ptyProcess.onExit callback: the process has terminated (by itself or from a
\* signal); node-pty fires it once per process.
OnExit(p) ==
  /\ phase # "exited"
  /\ p \in DOMAIN ptys
  /\ ~ptys[p].exited
  /\ ptys' = [ptys EXCEPT ![p].exited = TRUE]
  /\ emitted' = Emit(ptys[p].owner, EvExit(p))
  /\ terminals' = [terminals EXCEPT ![ptys[p].owner] = NoProc]
  /\ UNCHANGED <<supVars, cliVars, platform, phase, sock, recv, used>>

\* app.get('/health'): the `terminals` field of the response.
HealthTerminals == Cardinality(Registered)

\* process.on('SIGTERM'): kill every registered terminal (a throwing kill is
\* logged), clear the map, server.close(() => process.exit(0)).
SigtermHandler ==
  /\ phase # "exited"
  /\ ptys' = KillAll({terminals[c] : c \in Registered})
  /\ terminals' = [c \in Conns |-> NoProc]
  /\ phase' = "closing"
  /\ UNCHANGED <<supVars, cliVars, platform, sock, recv, emitted, used>>

Sigterm == SigtermHandler

\* process.on('SIGINT'): process.emit('SIGTERM').
Sigint == SigtermHandler

\* The callback of server.close, once every connection has ended: process.exit(0).
ServerClosed ==
  /\ phase = "closing"
  /\ \A c \in Conns : sock[c] # "open"
  /\ phase' = "exited"
  /\ UNCHANGED <<supVars, cliVars, platform, sock, recv, terminals, ptys, emitted, used>>

Options == {OptsExample}

SrvNext ==
  \/ \E c \in Conns : Connection(c)
  \/ \E c \in Conns, o \in Options : CreateTerminal(c, o)
  \/ \E c \in Conns : TerminalInput(c)
  \/ \E c \in Conns, s \in Sizes : TerminalResize(c, s)
  \/ \E c \in Conns : Disconnect(c)
  \/ \E p \in 1..MaxProcs : OnData(p)
  \/ \E p \in 1..MaxProcs : OnExit(p)
  \/ Sigterm
  \/ Sigint
  \/ ServerClosed

\* ======================================================== the supervisor
Calls == 1..MaxCalls
NoChild == 0
NoPath == 0       \* serverPath === ''
NApproaches == 3  \* approaches, in order

NewCall == [pc |-> "idle", path |-> NoPath, i |-> 0, child |-> NoChild,
            ret |-> "none", notices |-> <<>>, probes |-> 0, stopped |-> FALSE]

SupInitOn(F) ==
  /\ installed \in F
  /\ isServerRunning = FALSE
  /\ serverProcess = NoChild
  /\ children = <<>>
  /\ calls = [k \in Calls |-> NewCall]

\* Mutant: the loop falls back to the first path when none holds server.js.
findServerPathDefault ==
  IF installed = {} THEN 1
  ELSE CHOOSE q \in installed : \A r \in installed : q <= r

\* The loop over possiblePaths: the first path holding server.js, '' if none.
findServerPath ==
  IF installed = {} THEN NoPath
  ELSE CHOOSE q \in installed : \A r \in installed : q <= r

\* return v, after the notice n
Return(k, v, n) ==
  [calls EXCEPT ![k].pc = "done", ![k].ret = v, ![k].notices = Append(@, n)]

\* The ChildProcess that approach j of call k spawns.
Spawned(j, k) ==
  [approach |-> j, by |-> k, status |-> "running", killed |-> FALSE, listening |-> FALSE]

\* ChildProcess.kill(): signals a running process and sets `killed`;
\* returns false, changing nothing, once the process has terminated.
KillChild(ch) ==
  IF ch.status = "running" THEN [ch EXCEPT !.killed = TRUE] ELSE ch

\* child.exitCode === null: still running, or terminated by a signal.
ExitCodeNull(ch) == ch.status \in {"running", "signal"}

\* tryStartServer from approach i0 on, with chs the subprocesses and cs the
\* calls so far: each approach's spawn either throws (caught, next approach) or
\* returns a subprocess, and the loop then waits 1000 ms; after the last
\* approach the function throws and startServer's catch returns false.
TryFrom(k, i0, chs, cs) ==
  \/ \E j \in i0..NApproaches :
       /\ Len(chs) < MaxChildren
       /\ children' = Append(chs, Spawned(j, k))
       /\ calls' = [cs EXCEPT ![k].pc = "wait", ![k].i = j, ![k].child = Len(chs) + 1]
  \/ /\ children' = chs
     /\ calls' = [cs EXCEPT ![k].pc = "done", ![k].ret = "false", ![k].child = NoChild,
                            ![k].notices = Append(@, "failed-to-start")]

\* Mutant: startServer probes the health endpoint whatever isServerRunning is.
StartServerAlwaysProbes(k) ==
  /\ calls[k].pc = "idle"
  /\ calls' = [calls EXCEPT ![k].pc = "health1", ![k].probes = @ + 1]
  /\ UNCHANGED <<srvVars, cliVars, installed, isServerRunning, serverProcess, children>>

\* startServer up to its first await; probes counts its checkServerHealth calls.
StartServer(k) ==
  /\ calls[k].pc = "idle"
  /\ calls' = IF isServerRunning
                THEN [calls EXCEPT ![k].pc = "done", ![k].ret = "true"]
                ELSE [calls EXCEPT ![k].pc = "health1", ![k].probes = @ + 1]
  /\ UNCHANGED <<srvVars, cliVars, installed, isServerRunning, serverProcess, children>>

\* The first checkServerHealth resolves with ok; on false the install paths
\* are probed and tryStartServer runs up to its first wait.
Health1Result(k, ok) ==
  /\ calls[k].pc = "health1"
  /\ IF ok
       THEN /\ isServerRunning' = TRUE
            /\ calls' = [calls EXCEPT ![k].pc = "done", ![k].ret = "true"]
            /\ UNCHANGED children
       ELSE IF findServerPath = NoPath
         THEN /\ calls' = Return(k, "false", "files-not-found")
              /\ UNCHANGED <<isServerRunning, children>>
         ELSE /\ TryFrom(k, 1, children,
                         [calls EXCEPT ![k].path = findServerPath,
                                       ![k].notices = Append(@, "starting")])
              /\ UNCHANGED isServerRunning
  /\ UNCHANGED <<srvVars, cliVars, installed, serverProcess>>

\* The 1000 ms wait of tryStartServer ends: the subprocess is accepted (and
\* startServer stores it, attaches its listeners and starts the 3000 ms wait)
\* or killed, and the next approach is tried.
WaitDone(k) ==
  /\ calls[k].pc = "wait"
  /\ LET j  == calls[k].child
         ch == children[j]
     IN IF ExitCodeNull(ch) /\ ~ch.killed
          THEN /\ serverProcess' = j
               /\ children' = [children EXCEPT ![j].listening = TRUE]
               /\ calls' = [calls EXCEPT ![k].pc = "grace"]
          ELSE /\ TryFrom(k, calls[k].i + 1, [children EXCEPT ![j] = KillChild(ch)], calls)
               /\ UNCHANGED serverProcess
  /\ UNCHANGED <<srvVars, cliVars, installed, isServerRunning>>

\* The 3000 ms wait of startServer ends; the second checkServerHealth starts.
GraceDone(k) ==
  /\ calls[k].pc = "grace"
  /\ calls' = [calls EXCEPT ![k].pc = "health2", ![k].probes = @ + 1]
  /\ UNCHANGED <<srvVars, cliVars, installed, isServerRunning, serverProcess, children>>

\* The second checkServerHealth resolves with ok.
Health2Result(k, ok) ==
  /\ calls[k].pc = "health2"
  /\ IF ok
       THEN /\ isServerRunning' = TRUE
            /\ calls' = Return(k, "true", "started")
       ELSE /\ calls' = Return(k, "false", "not-responding")
            /\ UNCHANGED isServerRunning
  /\ UNCHANGED <<srvVars, cliVars, installed, serverProcess, children>>

\* Mutant: stopServer drops the handle without signalling the subprocess.
StopServerNoKill ==
  /\ serverProcess' = NoChild
  /\ isServerRunning' = FALSE
  /\ UNCHANGED <<srvVars, cliVars, installed, calls, children>>

\* stopServer (also called by onunload); `stopped` records, for each
\* startServer call in flight, that stopServer ran meanwhile.
StopServer ==
  /\ IF serverProcess # NoChild
       THEN /\ children' = [children EXCEPT ![serverProcess] = KillChild(@)]
            /\ serverProcess' = NoChild
       ELSE UNCHANGED <<children, serverProcess>>
  /\ isServerRunning' = FALSE
  /\ calls' = [k \in Calls |-> IF calls[k].pc \in {"idle", "done"} THEN calls[k]
                                ELSE [calls[k] EXCEPT !.stopped = TRUE]]
  /\ UNCHANGED <<srvVars, cliVars, installed>>

\* A subprocess terminates with exit code 0 ("exited"), with a non-zero exit
\* code ("failed": also a failed spawn, reported by 'error') or from a signal
\* ("signal": exitCode stays null).  Node sets exitCode / signalCode and emits
\* the event in one step; the 'exit' and 'error' listeners startServer
\* attached, if any, make the same assignments.
ChildExit(j, how) ==
  /\ j \in DOMAIN children
  /\ children[j].status = "running"
  /\ children' = [children EXCEPT ![j].status = how]
  /\ IF children[j].listening
       THEN /\ isServerRunning' = FALSE
            /\ serverProcess' = NoChild
       ELSE UNCHANGED <<isServerRunning, serverProcess>>
  /\ UNCHANGED <<srvVars, cliVars, installed, calls>>

Exits == {"exited", "failed", "signal"}

\* The 'exit' listener's Notice 'Server exited with error code ...' (and the
\* 'error' listener's) was shown for subprocess j: it had the listeners and a
\* non-zero, non-null code.
ExitNoticeShown(j) == children[j].listening /\ children[j].status = "failed"

SupNext ==
  \/ \E k \in Calls : StartServer(k)
  \/ \E k \in Calls, ok \in BOOLEAN : Health1Result(k, ok)
  \/ \E k \in Calls : WaitDone(k)
  \/ \E k \in Calls : GraceDone(k)
  \/ \E k \in Calls, ok \in BOOLEAN : Health2Result(k, ok)
  \/ StopServer
  \/ \E j \in 1..MaxChildren, how \in Exits : ChildExit(j, how)

\* ============================================================ the plugin
\* ------------------------------------------------------------- settings
\* Strings the settings code parses or builds are sequences of characters.
HexDigits == <<"0", "1", "2", "3", "4", "5", "6", "7", "8", "9", "a", "b", "c", "d", "e", "f">>

\* The value of ch as a digit of the radix, -1 when it is none.
DigitOf(ch, radix) ==
  IF \E d \in 0..(radix - 1) : HexDigits[d + 1] = ch
    THEN CHOOSE d \in 0..(radix - 1) : HexDigits[d + 1] = ch
    ELSE -1

RECURSIVE SkipWs(_)
SkipWs(s) == IF s # <<>> /\ Head(s) = " " THEN SkipWs(Tail(s)) ELSE s

RECURSIVE ReadDigits(_, _, _, _)
ReadDigits(s, radix, acc, seen) ==
  IF s # <<>> /\ DigitOf(Head(s), radix) >= 0
    THEN ReadDigits(Tail(s), radix, acc * radix + DigitOf(Head(s), radix), TRUE)
    ELSE [nan |-> ~seen, n |-> acc]

\* parseInt(value): leading blanks, an optional sign, an optional 0x, then the
\* longest run of digits; NaN when there is none.
parseInt(value) ==
  LET s1  == SkipWs(value)
      neg == s1 # <<>> /\ Head(s1) = "-"
      s2  == IF s1 # <<>> /\ Head(s1) \in {"-", "+"} THEN Tail(s1) ELSE s1
      hex == Len(s2) >= 2 /\ s2[1] = "0" /\ s2[2] \in {"x", "X"}
      r   == IF hex THEN ReadDigits(Tail(Tail(s2)), 16, 0, FALSE)
                    ELSE ReadDigits(s2, 10, 0, FALSE)
  IN [nan |-> r.nan, n |-> IF neg THEN 0 - r.n ELSE r.n]

\* `${port}` of a positive integer.
RECURSIVE NumToString(_)
NumToString(n) ==
  IF n < 10 THEN <<HexDigits[n + 1]>>
  ELSE Append(NumToString(n \div 10), HexDigits[(n % 10) + 1])

LocalhostPrefix ==
  <<"h", "t", "t", "p", ":", "/", "/", "l", "o", "c", "a", "l", "h", "o", "s", "t", ":">>

DEFAULT_SETTINGS ==
  [serverUrl |-> LocalhostPrefix \o <<"3", "0", "0", "1">>, shell |-> "/bin/bash",
   autoStartServer |-> TRUE, serverPort |-> 3001, nodePath |-> <<"auto">>]

\* What the user types into the Server Port field.
PortTexts ==
  { <<"8", "0", "8", "0">>, <<"0">>, <<"6", "5", "5", "3", "5">>, <<"6", "5", "5", "3", "6">>,
    <<"a", "b">>, <<>>, <<"8", "0", ".", "5">>, <<"-", "5">>, <<" ", "4", "2">>,
    <<"0", "x", "5", "0">>, <<"3", "0", "0", "1", "x">>, <<"1">>, <<"4", "4", "3">>,
    <<"9", "0", "0", "0">> }

\* ... and into the Server URL field.
UrlTexts ==
  { LocalhostPrefix \o <<"7", "0", "0", "0">>,
    <<"h", "t", "t", "p", ":", "/", "/", "p", "c", ":", "3", "0", "0", "1">> }

\* Mutant: the port change leaves the URL alone.
PortChangePortOnly(value) ==
  /\ LET port == parseInt(value)
     IN IF ~port.nan /\ port.n > 0 /\ port.n < 65536
          THEN settings' = [settings EXCEPT !.serverPort = port.n]
          ELSE UNCHANGED settings
  /\ UNCHANGED <<srvVars, supVars, nodeVars, view, link, isConnected, tdims, sent, keys, lost, prevSig>>

\* Server Port onChange.
PortChange(value) ==
  /\ LET port == parseInt(value)
     IN IF ~port.nan /\ port.n > 0 /\ port.n < 65536
          THEN settings' = [settings EXCEPT !.serverPort = port.n,
                                            !.serverUrl = LocalhostPrefix \o NumToString(port.n)]
          ELSE UNCHANGED settings
  /\ UNCHANGED <<srvVars, supVars, nodeVars, view, link, isConnected, tdims, sent, keys, lost, prevSig>>

\* Server URL onChange.
UrlChange(value) ==
  /\ settings' = [settings EXCEPT !.serverUrl = value]
  /\ UNCHANGED <<srvVars, supVars, nodeVars, view, link, isConnected, tdims, sent, keys, lost, prevSig>>

\* Auto-Start Server onChange.
AutoStartChange(value) ==
  /\ settings' = [settings EXCEPT !.autoStartServer = value]
  /\ UNCHANGED <<srvVars, supVars, nodeVars, view, link, isConnected, tdims, sent, keys, lost, prevSig>>

\* Shell onChange.
ShellChange(value) ==
  /\ settings' = [settings EXCEPT !.shell = value]
  /\ UNCHANGED <<srvVars, supVars, nodeVars, view, link, isConnected, tdims, sent, keys, lost, prevSig>>

ShellTexts == {"/bin/bash", "/bin/zsh", ""}

SettingsNext ==
  \/ \E value \in PortTexts : PortChange(value)
  \/ \E value \in ShellTexts : ShellChange(value)
  \/ \E value \in UrlTexts : UrlChange(value)
  \/ \E value \in BOOLEAN : AutoStartChange(value)

\* ------------------------------------------------------------ findNodePath
\* A path is a sequence of its parts.
execPath == <<"/opt/Obsidian/obsidian">>      \* process.execPath

nvmBasePath == <<home, ".nvm/versions/node">>
NvmNode(version) == <<home, ".nvm/versions/node", version, "bin/node">>

WindowsPaths ==
  << <<"C:\\Program Files\\nodejs\\node.exe">>, <<"C:\\Program Files (x86)\\nodejs\\node.exe">> >>

\* possibleNodePaths, with the pattern for nvm probed as the literal path it is.
possibleNodePaths ==
  << execPath, <<"/usr/bin/node">>, <<"/usr/local/bin/node">>, <<"/opt/homebrew/bin/node">>,
     <<"/opt/homebrew/opt/node/bin/node">>, NvmNode("*") >>
  \o WindowsPaths \o << <<"node">> >>

\* expandedPaths: one more path per entry of the nvm directory, when HOME is
\* set, the directory exists and can be read.
expandedPaths ==
  possibleNodePaths \o
    (IF home # "undefined" /\ nvmBasePath \in files /\ versions.ok
       THEN [i \in 1..Len(versions.names) |-> NvmNode(versions.names[i])]
       ELSE <<>>)

\* The loop over expandedPaths from index i: the first existing path that is
\* not 'node', process.execPath when there is none.
RECURSIVE TestEach(_)
TestEach(i) ==
  IF i > Len(expandedPaths) THEN execPath
  ELSE IF expandedPaths[i] # <<"node">> /\ expandedPaths[i] \in files THEN expandedPaths[i]
  ELSE TestEach(i + 1)

NotDetected == [path |-> <<>>, notice |-> FALSE]

\* Mutant: a configured path is returned without checking that it exists.
findNodePathUnverified ==
  /\ detected = NotDetected
  /\ LET custom == settings.nodePath # <<>> /\ settings.nodePath # <<"auto">>
     IN detected' = IF custom THEN [path |-> settings.nodePath, notice |-> FALSE]
                    ELSE [path |-> TestEach(1), notice |-> FALSE]
  /\ UNCHANGED <<srvVars, supVars, view, link, isConnected, tdims, sent, keys, lost, prevSig,
                 settings, files, home, versions>>

\* findNodePath
findNodePath ==
  /\ detected = NotDetected
  /\ LET custom == settings.nodePath # <<>> /\ settings.nodePath # <<"auto">>
     IN detected' = IF custom /\ settings.nodePath \in files
                      THEN [path |-> settings.nodePath, notice |-> FALSE]
                      ELSE [path |-> TestEach(1), notice |-> custom]
  /\ UNCHANGED <<srvVars, supVars, view, link, isConnected, tdims, sent, keys, lost, prevSig,
                 settings, files, home, versions>>

\* The inputs of findNodePath: the Node.js Path setting, HOME, the entries of
\* the nvm directory and the existing files.  Entries of the nvm directory
\* exist inside it and, when it can be read, are listed; no directory is named
\* * on Windows, and the Windows install locations exist on Windows only.
NodePathTexts == {<<"auto">>, <<>>, <<"/my/node">>}
Homes == {"undefined", "/home/u"}
VersionNames == {"v18", "v20", "*"}

Listings ==
  {s \in UNION {[1..n -> VersionNames] : n \in 0..MaxVersions} :
     \A i, j \in 1..Len(s) : i # j => s[i] # s[j]}

Range(s) == {s[i] : i \in 1..Len(s)}

NodeInit ==
  /\ settings \in {[DEFAULT_SETTINGS EXCEPT !.nodePath = v] : v \in NodePathTexts}
  /\ home \in Homes
  /\ versions \in {[ok |-> TRUE, names |-> s] : s \in Listings} \cup {[ok |-> FALSE, names |-> <<>>]}
  /\ files \in SUBSET (Range(possibleNodePaths) \cup {<<"/my/node">>, nvmBasePath}
                         \cup {NvmNode(v) : v \in VersionNames})
  /\ \A v \in VersionNames :
       NvmNode(v) \in files
         => /\ home # "undefined"
            /\ nvmBasePath \in files
            /\ versions.ok => v \in Range(versions.names)
  /\ Range(versions.names) # {} => nvmBasePath \in files
  /\ home = "undefined" => nvmBasePath \notin files
  /\ platform = "win32" => ("*" \notin Range(versions.names) /\ NvmNode("*") \notin files)
  /\ platform # "win32" => Range(WindowsPaths) \cap files = {}
  /\ <<"node">> \notin files
  /\ detected = NotDetected

\* ------------------------------------------------------ the terminal view
NoSig == [cols |-> 0, rows |-> 0, sent |-> FALSE]

CliInit ==
  /\ view = "closed"
  /\ link = "none"
  /\ isConnected = FALSE
  /\ tdims = [cols |-> 80, rows |-> 24]
  /\ sent = <<>>
  /\ keys = <<>>
  /\ lost = FALSE
  /\ prevSig = NoSig
  /\ settings = DEFAULT_SETTINGS
  /\ files = {execPath}
  /\ home = "undefined"
  /\ versions = [ok |-> TRUE, names |-> <<>>]
  /\ detected = NotDetected

\* getBoundingClientRect() of the terminal container, in pixels.
Rects == {[width |-> w, height |-> h] : w \in {0, 720, 725, 900}, h \in {408, 510}}

\* Why socket.io-client reports a disconnect: the server closed the socket, or
\* the transport was lost (after which the client reconnects by itself: the
\* `reconnection` option of io() is left at its default, true).
Reasons == {"io server disconnect", "transport close"}

\* onOpen of a new TerminalView: an 80x24 Terminal, the ResizeObserver, and
\* initializeSocket up to io(...).
onOpen ==
  /\ view = "closed"
  /\ view' = "open"
  /\ link' = "connecting"
  /\ isConnected' = FALSE
  /\ tdims' = [cols |-> 80, rows |-> 24]
  /\ lost' = FALSE
  /\ prevSig' = NoSig
  /\ UNCHANGED <<srvVars, supVars, nodeVars, sent, keys, settings>>

\* socket.on('connect'), on the first connection and on every reconnection.
OnConnect ==
  /\ link \in {"connecting", "reconnecting"}
  /\ Len(sent) < MaxSent
  /\ link' = "connected"
  /\ isConnected' = TRUE
  /\ sent' = Append(sent, [type |-> "create-terminal", shell |-> settings.shell,
                           cols |-> tdims.cols, rows |-> tdims.rows])
  /\ UNCHANGED <<srvVars, supVars, nodeVars, view, tdims, keys, lost, prevSig, settings>>

\* socket.on('terminal-exit')
OnTerminalExit ==
  /\ link = "connected"
  /\ isConnected' = FALSE
  /\ lost' = TRUE
  /\ UNCHANGED <<srvVars, supVars, nodeVars, view, link, tdims, sent, keys, prevSig, settings>>

\* socket.on('disconnect')
OnDisconnect(reason) ==
  /\ link = "connected"
  /\ isConnected' = FALSE
  /\ lost' = TRUE
  /\ link' = IF reason = "io server disconnect" THEN "disconnected" ELSE "reconnecting"
  /\ UNCHANGED <<srvVars, supVars, nodeVars, view, tdims, sent, keys, prevSig, settings>>

\* Mutant: a keystroke made while not connected is sent all the same (the
\* socket buffers it until the connection is back).
TerminalOnDataUnguarded ==
  /\ view = "open"
  /\ Len(keys) < MaxKeys
  /\ Len(sent) < MaxSent
  /\ keys' = Append(keys, isConnected)
  /\ sent' = Append(sent, [type |-> "terminal-input"])
  /\ UNCHANGED <<srvVars, supVars, nodeVars, view, link, isConnected, tdims, lost, prevSig, settings>>

\* terminal.onData: a keystroke or paste in the emulator.
TerminalOnData ==
  /\ view = "open"
  /\ Len(keys) < MaxKeys
  /\ keys' = Append(keys, isConnected)
  /\ IF link # "none" /\ isConnected
       THEN /\ Len(sent) < MaxSent
            /\ sent' = Append(sent, [type |-> "terminal-input"])
       ELSE UNCHANGED sent
  /\ UNCHANGED <<srvVars, supVars, nodeVars, view, link, isConnected, tdims, lost, prevSig, settings>>

\* Mutant: the callback emits terminal-resize without resizing the emulator.
ResizeObserverCallbackNoResize(rect) ==
  /\ view = "open"
  /\ LET cols == rect.width \div 9
         rows == rect.height \div 17
         go   == /\ link # "none" /\ isConnected
                 /\ cols > 0 /\ rows > 0
                 /\ (cols # tdims.cols \/ rows # tdims.rows)
     IN /\ go => Len(sent) < MaxSent
        /\ UNCHANGED tdims
        /\ sent' = IF go THEN Append(sent, [type |-> "terminal-resize", cols |-> cols, rows |-> rows])
                         ELSE sent
        /\ prevSig' = [cols |-> cols, rows |-> rows, sent |-> go]
  /\ UNCHANGED <<srvVars, supVars, nodeVars, view, link, isConnected, keys, lost, settings>>

\* The ResizeObserver callback; prevSig records what it computed and whether
\* it emitted.
ResizeObserverCallback(rect) ==
  /\ view = "open"
  /\ LET cols == rect.width \div 9
         rows == rect.height \div 17
         go   == /\ link # "none" /\ isConnected
                 /\ cols > 0 /\ rows > 0
                 /\ (cols # tdims.cols \/ rows # tdims.rows)
     IN /\ go => Len(sent) < MaxSent
        /\ tdims' = IF go THEN [cols |-> cols, rows |-> rows] ELSE tdims
        /\ sent' = IF go THEN Append(sent, [type |-> "terminal-resize", cols |-> cols, rows |-> rows])
                         ELSE sent
        /\ prevSig' = [cols |-> cols, rows |-> rows, sent |-> go]
  /\ UNCHANGED <<srvVars, supVars, nodeVars, view, link, isConnected, keys, lost, settings>>

\* onClose: socket.disconnect(), this.socket = null, terminal.dispose().
onClose ==
  /\ view = "open"
  /\ view' = "closed"
  /\ link' = "none"
  /\ isConnected' = FALSE
  /\ UNCHANGED <<srvVars, supVars, nodeVars, tdims, sent, keys, lost, prevSig, settings>>

ViewNext ==
  \/ onOpen
  \/ OnConnect
  \/ OnTerminalExit
  \/ \E reason \in Reasons : OnDisconnect(reason)
  \/ TerminalOnData
  \/ \E rect \in Rects : ResizeObserverCallback(rect)
  \/ onClose

\* ===================================================== the specifications
\* The broker, with the supervisor at rest.
Init == SrvInit /\ SupInitOn({{}}) /\ CliInit
Next == SrvNext
Spec == Init /\ [][Next]_vars

\* The broker's successful create-terminal on every platform and request payload.
CreateInit == InitOn(Platforms) /\ SupInitOn({{}}) /\ CliInit
CreateNext ==
  \/ \E c \in Conns : Connection(c)
  \/ \E c \in Conns, o \in AllOptions : CreateTerminalOk(c, o)
CreateSpec == CreateInit /\ [][CreateNext]_vars

\* The supervisor, with the broker at rest.
\* Which of the four possiblePaths (1..4, in probing order) hold server.js.
Installs == {{}, {1}, {3, 4}}

SupInit == SrvInit /\ SupInitOn(Installs) /\ CliInit
SupSpec == SupInit /\ [][SupNext]_vars

\* The terminal view, with the broker and the supervisor at rest.
ViewSpec == Init /\ [][ViewNext]_vars

\* The settings tab.
SettingsSpec == Init /\ [][SettingsNext]_vars

\* findNodePath on every configured path, environment and set of files.
NodeSpecInit ==
  /\ InitOn(Platforms) /\ SupInitOn({{}})
  /\ view = "closed" /\ link = "none" /\ isConnected = FALSE
  /\ tdims = [cols |-> 80, rows |-> 24]
  /\ sent = <<>> /\ keys = <<>> /\ lost = FALSE /\ prevSig = NoSig
  /\ NodeInit
NodeSpec == NodeSpecInit /\ [][findNodePath]_vars

\* ================================================================ claims
Last(s) == s[Len(s)]

\* conn c handled one more client message in this step, of type ty
Handled(c, ty) ==
  /\ Len(recv'[c]) = Len(recv[c]) + 1
  /\ Last(recv'[c]).type = ty

Live(p) == ~ptys[p].exited

\* ---- C1 (as claimed): after create-terminal, N >= 0 terminal-input, one
\* terminal-resize and the disconnect, the registry holds no entry for the
\* connection.
C1_Sequence(s) ==
  /\ Len(s) >= 3
  /\ s[1].type = "create-terminal"
  /\ \A i \in 2..(Len(s) - 2) : s[i].type = "terminal-input"
  /\ s[Len(s) - 1].type = "terminal-resize"
  /\ s[Len(s)].type = "disconnect"

C1_NoEntryAfterDisconnect ==
  \A c \in Conns : C1_Sequence(recv[c]) => terminals[c] = NoProc

\* ---- C2 (as claimed): no connection ever has a live PTY process spawned for
\* it that is neither its registered session nor has been sent a kill.
C2_NoLeakedProcess ==
  \A p \in DOMAIN ptys :
    (Live(p) /\ ptys[p].kills = 0) => terminals[ptys[p].owner] = p

\* ---- C3 (as claimed): every exited PTY process has exactly one terminal-exit
\* on its connection, and no terminal-output is emitted to a connection after
\* a terminal-exit.
C3_ExitOnceThenSilence ==
  /\ \A p \in DOMAIN ptys :
       ptys[p].exited =>
         Cardinality({i \in 1..Len(emitted[ptys[p].owner]) :
                        emitted[ptys[p].owner][i] = EvExit(p)}) = 1
  /\ \A c \in Conns : \A i, j \in 1..Len(emitted[c]) :
       (i < j /\ emitted[c][i].type = "terminal-exit")
         => emitted[c][j].type # "terminal-output"

\* ---- C4: a terminal-input handled on a connection with no registered
\* session emits exactly terminal-error NO_TERMINAL to that connection, spawns
\* and writes to no PTY process and leaves the registry unchanged.
C4_InputWithoutSession ==
  [][\A c \in Conns :
       (Handled(c, "terminal-input") /\ terminals[c] = NoProc)
         => /\ emitted' = Emit(c, EvError("NO_TERMINAL"))
            /\ ptys' = ptys
            /\ terminals' = terminals]_vars

C4_Witness ==
  \E c \in Conns :
    /\ recv[c] # <<>> /\ Last(recv[c]).type = "terminal-input"
    /\ emitted[c] # <<>> /\ Last(emitted[c]) = EvError("NO_TERMINAL")
    /\ terminals[c] = NoProc

\* ---- C5: bytes sent on a connection are written only to a PTY process
\* spawned for that connection, and the output of a PTY process is emitted
\* only to the connection it was spawned for.
C5_Isolation ==
  /\ \A p \in DOMAIN ptys : \A i \in 1..Len(ptys[p].stdin) :
       ptys[p].stdin[i] = ptys[p].owner
  /\ \A c \in Conns : \A i \in 1..Len(emitted[c]) :
       emitted[c][i].type = "terminal-output" => ptys[emitted[c][i].data].owner = c

C5_Witness ==
  \E a, b \in Conns :
    /\ a # b
    /\ terminals[a] # NoProc /\ terminals[b] # NoProc
    /\ Live(terminals[a]) /\ Live(terminals[b])
    /\ ptys[terminals[a]].stdin # <<>>
    /\ \E i \in 1..Len(emitted[a]) : emitted[a][i] = EvOutput(terminals[a])

\* ---- C6: a create-terminal whose spawn fails (no process comes into being)
\* emits exactly terminal-error TERMINAL_CREATE_FAILED to the requester, no
\* terminal-created, and leaves the registry unchanged.
C6_SpawnFailure ==
  [][\A c \in Conns :
       (Handled(c, "create-terminal") /\ ptys' = ptys)
         => /\ emitted' = Emit(c, EvError("TERMINAL_CREATE_FAILED"))
            /\ terminals' = terminals]_vars

C6_Witness ==
  \E c \in Conns :
    /\ recv[c] # <<>> /\ Last(recv[c]).type = "create-terminal"
    /\ emitted[c] # <<>> /\ Last(emitted[c]) = EvError("TERMINAL_CREATE_FAILED")
    /\ terminals[c] = NoProc

\* The value the claim expects for an option: the requested one, or the
\* default when the option is absent.
C7_Requested(x, d) == IF x = <<>> THEN d ELSE x[1]
\* ... and as amended: the default also when the requested one is '' or 0.
C7_NonEmpty(x, d) == IF x = <<>> \/ x = <<"">> THEN d ELSE x[1]
C7_NonZero(x, d) == IF x = <<>> \/ x = <<0>> THEN d ELSE x[1]

\* A successful create-terminal registers the one new PTY process under the
\* connection and emits one terminal-created carrying the id, the shell, cwd,
\* cols and rows the process was spawned with, which are the values S and N
\* select from the request.
C7_Created(S(_, _), N(_, _)) ==
  \A c \in Conns :
    (Handled(c, "create-terminal") /\ Len(ptys') = Len(ptys) + 1)
      => LET o == Last(recv'[c]).options
             p == Len(ptys')
             e == EvCreated(c, S(o.shell, getDefaultShell), S(o.cwd, homedir),
                            N(o.cols, 80), N(o.rows, 24))
         IN /\ terminals' = [terminals EXCEPT ![c] = p]
            /\ ptys'[p].owner = c
            /\ emitted' = Emit(c, e)
            /\ <<ptys'[p].shell, ptys'[p].cwd, ptys'[p].cols, ptys'[p].rows>>
                 = <<e.shell, e.cwd, e.cols, e.rows>>

\* ---- C7 (as claimed): terminal-created carries the requested shell, cwd,
\* cols and rows, or the defaults for those absent.
C7_CreatedAsRequested == [][C7_Created(C7_Requested, C7_Requested)]_vars

\* ---- C7 (amended): terminal-created carries the requested shell, cwd, cols
\* and rows, or the defaults for those absent, empty ('') or zero.
C7_CreatedAsResolved == [][C7_Created(C7_NonEmpty, C7_NonZero)]_vars

C7_Witness ==
  \E a, b \in Conns :
    /\ terminals[a] # NoProc /\ terminals[b] # NoProc
    /\ Last(recv[a]) = MsgCreate(OptsExample)
    /\ Last(emitted[a]) = EvCreated(a, "/bin/bash", "/tmp", 80, 24)
    /\ Last(recv[b]) = MsgCreate(OptsFalsy)
    /\ Last(emitted[b]) = EvCreated(b, getDefaultShell, homedir, 80, 24)

\* The sessions active on the broker: PTY processes that have not exited, were
\* not sent a kill, and whose connection is open.
ActiveSessions ==
  {p \in DOMAIN ptys : Live(p) /\ ptys[p].kills = 0 /\ sock[ptys[p].owner] = "open"}

\* ---- C8 (as claimed): GET /health reports the number of active sessions.
C8_HealthCountsActive == HealthTerminals = Cardinality(ActiveSessions)

\* ---- C9 (as claimed): the SIGTERM handler empties the registry and leaves no
\* spawned PTY process alive without a kill, and a second signal kills no
\* process a second time.
C9_ShutdownKillsAll ==
  [][SigtermHandler =>
       /\ \A c \in Conns : terminals'[c] = NoProc
       /\ \A p \in DOMAIN ptys' : ~ptys'[p].exited => ptys'[p].kills >= 1
       /\ phase = "closing" =>
            \A p \in DOMAIN ptys : ptys[p].kills >= 1 => ptys'[p].kills = ptys[p].kills]_vars

\* ---- C10: startServer, when the health probe fails and server.js exists at
\* no probed path, returns false with the 'files not found' notice, spawns no
\* subprocess and leaves serverProcess and isServerRunning unchanged.
C10_FilesNotFound ==
  [][\A k \in Calls :
       (Health1Result(k, FALSE) /\ installed = {})
         => /\ calls'[k].pc = "done"
            /\ calls'[k].ret = "false"
            /\ calls'[k].notices = <<"files-not-found">>
            /\ children' = children
            /\ serverProcess' = serverProcess
            /\ isServerRunning' = isServerRunning]_vars

C10_Witness ==
  \E k \in Calls :
    /\ installed = {}
    /\ calls[k].pc = "done"
    /\ calls[k].ret = "false"
    /\ calls[k].notices = <<"files-not-found">>
    /\ children = <<>>

\* ---- C11 (as claimed): in tryStartServer a strategy whose subprocess has
\* terminated by the end of the wait is not accepted: a later strategy is
\* attempted, or the launch fails with startServer returning false, and
\* serverProcess is not set.
C11_DeadStrategySkipped ==
  [][\A k \in Calls :
       (WaitDone(k) /\ children[calls[k].child].status # "running")
         => /\ calls'[k].pc \in {"wait", "done"}
            /\ calls'[k].pc = "wait" => calls'[k].i > calls[k].i
            /\ calls'[k].pc = "done" => calls'[k].ret = "false"
            /\ serverProcess' = serverProcess]_vars

\* ---- C12: startServer called while isServerRunning is true returns true at
\* once, makes no health probe, spawns no subprocess and leaves serverProcess
\* and isServerRunning unchanged.
C12_AlreadyRunning ==
  [][\A k \in Calls :
       (calls[k].pc = "idle" /\ calls'[k].pc # "idle" /\ isServerRunning)
         => /\ calls'[k].pc = "done"
            /\ calls'[k].ret = "true"
            /\ calls'[k].probes = 0
            /\ children' = children
            /\ serverProcess' = serverProcess
            /\ isServerRunning' = isServerRunning]_vars

C12_Witness ==
  \E k, h \in Calls :
    /\ k # h
    /\ calls[h].pc = "done" /\ calls[h].ret = "true" /\ calls[h].probes >= 1
    /\ calls[k].pc = "done" /\ calls[k].ret = "true" /\ calls[k].probes = 0
    /\ isServerRunning

\* a call of startServer that has spawned a subprocess and not yet returned
Launching(k) == calls[k].pc \in {"wait", "grace", "health2"}

\* ---- C13 (as claimed): no two invocations of startServer are launching at
\* the same time, each with a subprocess of its own alive.
C13_NoParallelLaunch ==
  \A k, h \in Calls :
    (k # h /\ Launching(k) /\ Launching(h))
      => ~(/\ children[calls[k].child].status = "running"
           /\ children[calls[h].child].status = "running")

\* ---- C14: stopServer, from any state, calls kill on the managed subprocess
\* if it holds a handle, and returns with isServerRunning false and
\* serverProcess null without the subprocess having terminated in the step.
C14_StopServer ==
  [][StopServer =>
       /\ isServerRunning' = FALSE
       /\ serverProcess' = NoChild
       /\ \A j \in DOMAIN children :
            /\ children'[j].status = children[j].status
            /\ children'[j].killed =
                 (children[j].killed \/ (j = serverProcess /\ children[j].status = "running"))
       /\ \A k \in Calls : calls'[k] = [calls[k] EXCEPT !.stopped = calls'[k].stopped]]_vars

C14_Witness ==
  \E j \in DOMAIN children :
    /\ children[j].status = "running" /\ children[j].killed
    /\ serverProcess = NoChild
    /\ ~isServerRunning

\* how many of the view's messages are terminal-input
C15_InputsSent == Cardinality({i \in 1..Len(sent) : sent[i].type = "terminal-input"})
\* how many keystrokes were typed while isConnected was true
C15_KeysConnected == Cardinality({i \in 1..Len(keys) : keys[i]})

\* ---- C15: the view emits terminal-input only while isConnected is true
\* (which it is only on an open view with a connected socket); a keystroke
\* typed while it is false emits nothing, then or later: the terminal-input
\* messages sent are exactly the keystrokes typed while connected.
C15_InputOnlyWhileConnected ==
  /\ [](isConnected => (view = "open" /\ link = "connected"))
  /\ [](C15_InputsSent = C15_KeysConnected)
  /\ [][/\ (Len(sent') > Len(sent) /\ Last(sent').type = "terminal-input")
             => (isConnected /\ Len(keys') = Len(keys) + 1)
        /\ (Len(keys') > Len(keys) /\ ~isConnected) => sent' = sent]_vars

C15_Witness ==
  /\ \E i, j \in 1..Len(keys) : keys[i] /\ ~keys[j]
  /\ C15_InputsSent = 1
  /\ ~isConnected

\* ---- C16 (as claimed): once a view has handled terminal-exit or disconnect
\* it emits no further create-terminal and isConnected does not become true
\* again, until the view is closed and a new one opened.
C16_NoAutoReconnect ==
  [][(lost /\ lost')
       => /\ ~isConnected'
          /\ ~(Len(sent') > Len(sent) /\ Last(sent').type = "create-terminal")]_vars

\* ---- C17: a resize signal whose computed columns and rows equal the
\* emulator's sends nothing and resizes nothing, and of two consecutive
\* signals of a view that compute the same columns and rows at most one sends
\* a terminal-resize.
C17_ResizeIdempotent ==
  [][\A rect \in Rects :
       ResizeObserverCallback(rect)
         => LET cols == rect.width \div 9
                rows == rect.height \div 17
            IN /\ (cols = tdims.cols /\ rows = tdims.rows)
                    => (sent' = sent /\ tdims' = tdims)
               /\ (prevSig.sent /\ prevSig.cols = cols /\ prevSig.rows = rows)
                    => sent' = sent
               /\ Len(sent') <= Len(sent) + 1]_vars

C17_Witness ==
  /\ isConnected
  /\ prevSig = [cols |-> 80, rows |-> 30, sent |-> FALSE]
  /\ tdims = [cols |-> 80, rows |-> 30]
  /\ Cardinality({i \in 1..Len(sent) : sent[i].type = "terminal-resize"}) = 1

\* The port in a URL of the form http://localhost:<port>, -1 for another URL.
C18_UrlPort(url) ==
  IF Len(url) > Len(LocalhostPrefix) /\ SubSeq(url, 1, Len(LocalhostPrefix)) = LocalhostPrefix
    THEN LET r == parseInt(SubSeq(url, Len(LocalhostPrefix) + 1, Len(url)))
         IN IF r.nan THEN -1 ELSE r.n
    ELSE -1

\* ---- C18: a port change whose value parses to an integer with
\* 0 < port < 65536 sets serverPort to it and serverUrl to
\* http://localhost:<port>, so that the URL's port equals serverPort; any
\* other value changes neither; no other setting is touched.
C18_PortAndUrlTogether ==
  [][\A value \in PortTexts :
       PortChange(value)
         => LET port == parseInt(value)
            IN IF ~port.nan /\ port.n > 0 /\ port.n < 65536
                 THEN /\ settings'.serverPort = port.n
                      /\ C18_UrlPort(settings'.serverUrl) = settings'.serverPort
                      /\ settings' = [settings EXCEPT !.serverPort = port.n,
                                                      !.serverUrl = settings'.serverUrl]
                 ELSE settings' = settings]_vars

C18_Witness ==
  /\ settings.serverPort = 8080
  /\ settings.serverUrl = LocalhostPrefix \o <<"8", "0", "8", "0">>
  /\ ~settings.autoStartServer

\* ---- C19 (as claimed): no terminal-error is emitted to a connection after a
\* terminal-exit was emitted to it.
C19_NoErrorAfterExit ==
  \A c \in Conns : \A i, j \in 1..Len(emitted[c]) :
    (i < j /\ emitted[c][i].type = "terminal-exit")
      => emitted[c][j].type # "terminal-error"

\* the PTY process p is notified as exited in this step
C20_Exits(p) == ~ptys[p].exited /\ ptys'[p].exited

\* ---- C20 (as claimed): a disconnect handled after all the connection's PTY
\* processes have exited kills nothing and leaves the registry unchanged; the
\* exit of a process whose connection has already disconnected kills nothing
\* and leaves the registry unchanged; and, while the broker is serving, no
\* process is sent more than one kill.
C20_IdempotentTeardown ==
  /\ [][\A c \in Conns :
          (Handled(c, "disconnect")
             /\ \A p \in DOMAIN ptys : ptys[p].owner = c => ptys[p].exited)
            => (ptys' = ptys /\ terminals' = terminals)]_vars
  /\ [][\A p \in DOMAIN ptys :
          (C20_Exits(p) /\ sock[ptys[p].owner] = "closed")
            => /\ terminals' = terminals
               /\ \A q \in DOMAIN ptys : ptys'[q].kills = ptys[q].kills]_vars
  /\ [](phase = "listening" => \A p \in DOMAIN ptys : ptys[p].kills <= 1)

\* ---- C21 (as claimed): the disconnect handler always leaves the registry
\* without an entry for the connection, also when the kill raises an error.
C21_DisconnectRemovesEntry ==
  [][\A c \in Conns : Handled(c, "disconnect") => terminals'[c] = NoProc]_vars

\* the size the last terminal-resize handled on c asked for
C22_Asked(c) == Last(recv'[c]).size

\* ---- C22: a terminal-resize on a registered session that does not take
\* effect on the PTY (the resize threw) leaves the session registered and the
\* connection open, kills no process and emits nothing; and input handled on a
\* registered session, after a failed resize as at any other time, is written
\* to its PTY process.
C22_ResizeFailureNonFatal ==
  /\ [][\A c \in Conns :
          (/\ Handled(c, "terminal-resize")
           /\ terminals[c] # NoProc
           /\ <<ptys'[terminals[c]].cols, ptys'[terminals[c]].rows>>
                # <<C22_Asked(c).cols, C22_Asked(c).rows>>)
            => /\ terminals' = terminals
               /\ ptys' = ptys
               /\ emitted' = emitted
               /\ sock' = sock /\ phase' = phase]_vars
  /\ [][\A c \in Conns :
          (Handled(c, "terminal-input") /\ terminals[c] # NoProc)
            => /\ ptys'[terminals[c]].stdin = Append(ptys[terminals[c]].stdin, c)
               /\ emitted' = emitted /\ terminals' = terminals]_vars

\* a failed resize (the PTY keeps its 80x24) followed by input that reached it
C22_Witness ==
  \E c \in Conns :
    /\ Len(recv[c]) = 3
    /\ recv[c][1].type = "create-terminal"
    /\ recv[c][2].type = "terminal-resize"
    /\ recv[c][3].type = "terminal-input"
    /\ terminals[c] # NoProc
    /\ ptys[terminals[c]].cols = 80 /\ ptys[terminals[c]].rows = 24
    /\ ptys[terminals[c]].stdin = <<c>>
    /\ ptys[terminals[c]].kills = 0
    /\ Len(emitted[c]) = 1

\* the subprocesses call k has spawned
C23_SpawnedBy(k) == {j \in DOMAIN children : children[j].by = k}

\* ---- C23 (as claimed): the subprocess tryStartServer returns is alive and
\* was not sent kill; every other subprocess the call spawned came from an
\* earlier strategy and has terminated or been sent kill; so exactly one
\* subprocess of the call is alive.
C23_ExactlyOneSurvivor ==
  [][\A k \in Calls :
       (WaitDone(k) /\ calls'[k].pc = "grace")
         => LET j == calls[k].child
            IN /\ children[j].status = "running" /\ ~children[j].killed
               /\ \A x \in C23_SpawnedBy(k) \ {j} :
                    /\ children[x].approach < children[j].approach
                    /\ (children[x].status # "running" \/ children[x].killed)
               /\ Cardinality({x \in C23_SpawnedBy(k) : children'[x].status = "running"}) = 1]_vars

\* ---- C24 (as claimed): when a subprocess becomes the managed server
\* process, every subprocess spawned by a startServer call that has already
\* returned has terminated or been sent kill.
C24_OneManagedServer ==
  [][(serverProcess' # serverProcess /\ serverProcess' # NoChild)
       => \A j \in DOMAIN children :
            (j # serverProcess' /\ calls[children[j].by].pc = "done")
              => (children[j].status # "running" \/ children[j].killed)]_vars

\* ---- C25 (as claimed): the verification makes one health probe after the
\* grace interval; success sets isServerRunning and returns true; failure
\* returns false, and what the user is told differs between a subprocess that
\* is still alive and one that has terminated.
C25_VerificationOutcome ==
  [][\A k \in Calls, ok \in BOOLEAN :
       Health2Result(k, ok)
         => LET j == calls[k].child
            IN /\ calls[k].probes = 2
               /\ ok => (isServerRunning' /\ calls'[k].ret = "true")
               /\ ~ok => /\ calls'[k].ret = "false"
                         /\ children[j].status = "running"
                              => Last(calls'[k].notices) = "not-responding"
                         /\ children[j].status # "running"
                              => (Last(calls'[k].notices) # "not-responding"
                                    \/ ExitNoticeShown(j))]_vars

\* The probing order of the claim: the current runtime's path, the fixed
\* well-known install locations, then the version-manager directories under
\* the home directory (the pattern's own path, then the directory's entries).
C26_Order ==
  << execPath, <<"/usr/bin/node">>, <<"/usr/local/bin/node">>, <<"/opt/homebrew/bin/node">>,
     <<"/opt/homebrew/opt/node/bin/node">> >>
  \o WindowsPaths \o << NvmNode("*") >>
  \o [i \in 1..Len(versions.names) |-> NvmNode(versions.names[i])]

C26_Existing == {i \in 1..Len(C26_Order) : C26_Order[i] \in files}

C26_Expected ==
  IF settings.nodePath \notin {<<"auto">>, <<>>} /\ settings.nodePath \in files
    THEN settings.nodePath
  ELSE IF C26_Existing = {} THEN execPath
  ELSE C26_Order[CHOOSE i \in C26_Existing : \A j \in C26_Existing : i <= j]

C27_BurstCollapsed ==
  [][\A rect \in Rects :
       (ResizeObserverCallback(rect) /\ prevSig.sent) => sent' = sent]_vars

\* ---- C28 (as claimed): each connect event makes the view emit exactly one
\* create-terminal carrying the configured shell, the emulator's columns and
\* rows, and the working directory.
C28_CreateRequest ==
  [][(link # "connected" /\ link' = "connected")
       => /\ Len(sent') = Len(sent) + 1
          /\ SubSeq(sent', 1, Len(sent)) = sent
          /\ Last(sent').type = "create-terminal"
          /\ Last(sent').shell = settings.shell
          /\ Last(sent').cols = tdims.cols /\ Last(sent').rows = tdims.rows
          /\ "cwd" \in DOMAIN Last(sent')]_vars

\* an event of connection a is handled in this step: one of its messages, or
\* the exit of a PTY process spawned for it
C29_EventOf(a) ==
  \/ Len(recv'[a]) > Len(recv[a])
  \/ \E p \in DOMAIN ptys : ptys[p].owner = a /\ C20_Exits(p)

\* ---- C29: an event handled for connection a leaves the registry entry, the
\* PTY processes, the emitted events and the socket of every other connection
\* unchanged, and leaves the server accepting connections as before.
C29_Frame ==
  [][\A a \in Conns :
       C29_EventOf(a)
         => /\ \A b \in Conns \ {a} :
                 /\ terminals'[b] = terminals[b]
                 /\ emitted'[b] = emitted[b]
                 /\ sock'[b] = sock[b]
                 /\ recv'[b] = recv[b]
                 /\ \A q \in DOMAIN ptys : ptys[q].owner = b => ptys'[q] = ptys[q]
            /\ phase' = phase]_vars

\* connection a has had a failed spawn and a teardown while b's session lives
C29_Witness ==
  \E a, b \in Conns :
    /\ a # b
    /\ sock[a] = "closed"
    /\ \E i \in 1..Len(emitted[a]) : emitted[a][i] = EvError("TERMINAL_CREATE_FAILED")
    /\ \E p \in DOMAIN ptys : ptys[p].owner = a /\ ptys[p].kills = 1
    /\ phase = "listening"
    /\ terminals[b] # NoProc /\ Live(terminals[b]) /\ ptys[terminals[b]].kills = 0
    /\ Len(emitted[b]) = 1

\* ---- C30 (as claimed): the exit of a PTY process that is not the one
\* registered for its connection leaves the registry unchanged.
C30_ExitRemovesOwnEntryOnly ==
  [][\A p \in DOMAIN ptys :
       (C20_Exits(p) /\ terminals[ptys[p].owner] # p) => terminals' = terminals]_vars

\* subprocess j terminates in this step
C31_Terminates(j) == children[j].status = "running" /\ children'[j].status # "running"

\* ---- C31 (as claimed): the termination of a subprocess that is not the
\* managed one leaves serverProcess and isServerRunning, as established for
\* the managed subprocess, unchanged.
C31_StaleExitIgnored ==
  [][\A j \in DOMAIN children :
       (C31_Terminates(j) /\ serverProcess # NoChild /\ j # serverProcess)
         => /\ serverProcess' = serverProcess
            /\ isServerRunning' = isServerRunning]_vars

\* ---- C32 (as claimed): when every startServer call made so far has
\* returned, each of them spawned a subprocess and stopServer ran while it
\* was in flight, the supervisor is stopped: isServerRunning is false,
\* serverProcess is null, and every subprocess those calls spawned has
\* terminated or been sent kill.
C32_StopWinsOverStart ==
  (/\ \E k \in Calls : calls[k].pc = "done"
   /\ \A k \in Calls : calls[k].pc \in {"idle", "done"}
   /\ \A k \in Calls :
        calls[k].pc = "done" => (calls[k].stopped /\ C23_SpawnedBy(k) # {}))
    => /\ ~isServerRunning
       /\ serverProcess = NoChild
       /\ \A j \in DOMAIN children :
            children[j].status # "running" \/ children[j].killed

====
